---- MODULE Spec2Model ----
(***************************************************************************)
(* A model of main.py, the Streamlit weather-forecast viewer.              *)
(*                                                                         *)
(* One server process holds the two st.cache_data memo tables, the SQLite  *)
(* database weather_data.db and the CSV exports.  Every browser session    *)
(* has its own st.session_state and runs the script top to bottom          *)
(* (setup, update_session, check_date, display_it); an uncaught exception  *)
(* ends the script run.  Only the columns the checked properties read are  *)
(* kept in a row: its date, its weather_code and the derived weather.      *)
(***************************************************************************)
EXTENDS Integers, Sequences, FiniteSets, TLC

VARIABLES
    today,             \* the calendar day datetime.date.today() returns
    db,                \* weather_data.db: location -> table weekly_<location>
    csv,               \* location -> file weekly_<location>_forecast.csv
    api_cache,         \* st.cache_data of get_data_from_api, keyed by url
    db_cache,          \* st.cache_data of get_data_from_db, keyed by (location, date)
    api_calls,         \* history: executions of get_data_from_api's body per (url, caller's todays_date)
    current_location,  \* st.session_state.current_location of each session
    todays_date,       \* st.session_state.todays_date of each session
    current_df,        \* st.session_state.current_df of each session
    pc,                \* each session's position in the script run
    caller,            \* who called update_session: "main", "check_date" or "on_click"
    location,          \* update_session's argument
    data,              \* update_session's local: what get_data_from_api returned
    entry,             \* the persisted table and CSV of `location` when update_session was entered
    error,             \* the exception that ended the session's last script run
    buttons,           \* whether the last run rendered the sidebar buttons
    shown,             \* the dataframe display_it last drew its tabs from
    trigger,           \* what started the session's script run: "run" or "click"
    fetch              \* the HTTP exchange of the fetch specification

vars == <<today, db, csv, api_cache, db_cache, api_calls, current_location,
          todays_date, current_df, pc, caller, location, data, entry, error,
          buttons, shown, trigger, fetch>>

----------------------------------------------------------------------------
(* Bounds of the model *)

MaxDate == 2
HoursPerPayload == 2
ScriptLen == 6

(* Program constants *)

RetryTotal == 5
HttpErrorFloor == 400

Sessions == {"s1", "s2"}
Locations == {"london", "tignes"}
Dates == 1..MaxDate
Hours == 1..HoursPerPayload

StatusForcelistNo503 == {500, 502, 504}
StatusForcelist == {500, 502, 503, 504}

weather_codes == (0 :> "clear sky" @@ 3 :> "overcast")
ApiCodes == {3, 9999}

----------------------------------------------------------------------------
(* Values *)

Unset == [set |-> FALSE]
Val(v) == [set |-> TRUE, v |-> v]

\* A table weekly_<location>; id_column: it was made by csv_to_db's CREATE TABLE,
\* with the id INTEGER PRIMARY KEY column, not by to_sql
NoTable == [exists |-> FALSE, id_column |-> FALSE, rows |-> <<>>]
Table(rows) == [exists |-> TRUE, id_column |-> TRUE, rows |-> rows]
NoFile == [exists |-> FALSE, rows |-> <<>>]
File(rows) == [exists |-> TRUE, rows |-> rows]

Miss == [hit |-> FALSE]
Hit(v) == [hit |-> TRUE, v |-> v]

None == [kind |-> "None", rows |-> <<>>]
Values(rows) == [kind |-> "values", rows |-> rows]
Raised(e) == [kind |-> "raised", rows |-> <<>>, exc |-> e]
DataFrame(rows) == [kind |-> "df", rows |-> rows]

----------------------------------------------------------------------------
(* get_data_from_api: the request under Retry(total=5, backoff_factor=0.2,  *)
(* status_forcelist=[500, 502, 503, 504]).  A server script gives the reply *)
(* to each attempt in turn, the last one repeated.                          *)

Reply(status) == [net |-> "ok", status |-> status]
TimedOut == [net |-> "timeout", status |-> 0]
Replies == {Reply(200), Reply(404), Reply(503), TimedOut}
Scripts == [1..ScriptLen -> Replies]

ReplyAt(script, n) == script[IF n < Len(script) THEN n ELSE Len(script)]

\* Retry.is_retry: the status is one of status_forcelist
is_retry(reply) == reply.net = "ok" /\ reply.status \in StatusForcelist

\* Retry.is_exhausted, after Retry.increment took one off total
is_exhausted(total) == total < 0

NewRequest(script) ==
    [script |-> script, total |-> RetryTotal, attempts |-> 0,
     outcome |-> "pending", status |-> 0, message |-> "none"]

\* One attempt of http.request: send, then retry, give the response or raise
urlopen(f) ==
    LET n == f.attempts + 1
        reply == ReplyAt(f.script, n)
    IN  IF reply.net = "timeout" \/ is_retry(reply)
        THEN IF is_exhausted(f.total - 1)
             THEN [f EXCEPT !.attempts = n, !.total = f.total - 1,
                            !.outcome = "MaxRetryError"]
             ELSE [f EXCEPT !.attempts = n, !.total = f.total - 1]
        ELSE [f EXCEPT !.attempts = n, !.outcome = "response",
                       !.status = reply.status]

RECURSIVE request(_)
request(f) == IF f.outcome = "pending" THEN request(urlopen(f)) ELSE f

Garbage == [kind |-> "garbage", rows |-> <<>>]

\* json.loads(response.data)
json_loads(body) == IF body.kind = "values" THEN body ELSE Raised("JSONDecodeError")

\* The body of get_data_from_api once http.request ended as f with `body`: the
\* parsed values, or None after st.write of the error.  A timeout is retried
\* like a 503 and ends as MaxRetryError.
get_data_from_api(f, body) ==
    IF f.outcome = "response"
    THEN IF f.status >= HttpErrorFloor
         THEN [value |-> None, message |-> "HTTP error status code"]
         ELSE IF json_loads(body).kind = "raised"
              THEN [value |-> None, message |-> "An unexpected error occurred"]
              ELSE [value |-> json_loads(body), message |-> "Request successful"]
    ELSE [value |-> None, message |-> "Max retries exceeded with url"]

----------------------------------------------------------------------------
(* Coordinates and url *)

prepare_coordinates(loc) == [latitude |-> loc, longitude |-> loc]

make_url(coords) ==
    [url |-> "https://api.open-meteo.com/v1/forecasts",
     latitude |-> coords.latitude, longitude |-> coords.longitude,
     timezone |-> "Europe/London"]

UrlOf(loc) == make_url(prepare_coordinates(loc))
Urls == {UrlOf(l) : l \in Locations}

----------------------------------------------------------------------------
(* Normalisation *)

\* What the API serves on day d: one row per hour from that day's midnight
Payloads(d) ==
    {Values([h \in Hours |-> [day |-> d, hour |-> h, weather_code |-> codes[h]]]) :
        codes \in [Hours -> ApiCodes]}

\* response["hourly"] of None raises TypeError
response_to_pandas(response) ==
    IF response.kind = "values" THEN DataFrame(response.rows) ELSE Raised("TypeError")

\* weather.append(weather_codes[x]) raises KeyError for a code the table lacks
process_df(dataframe) ==
    IF \E i \in DOMAIN dataframe.rows :
           dataframe.rows[i].weather_code \notin DOMAIN weather_codes
    THEN Raised("KeyError")
    ELSE DataFrame([i \in DOMAIN dataframe.rows |->
             [day |-> dataframe.rows[i].day, hour |-> dataframe.rows[i].hour,
              weather_code |-> dataframe.rows[i].weather_code,
              weather |-> weather_codes[dataframe.rows[i].weather_code]]])

\* to_sql(..., if_exists="append", index=False): the rows are appended, SQLite
\* numbering the id column; a table that is missing is created from the
\* dataframe's own columns, without id
to_sql(table, rows) ==
    IF table.exists /\ table.id_column
    THEN [table EXCEPT !.rows = @ \o [i \in DOMAIN rows |->
             [id |-> Len(table.rows) + i, day |-> rows[i].day,
              hour |-> rows[i].hour, weather_code |-> rows[i].weather_code,
              weather |-> rows[i].weather]]]
    ELSE [exists |-> TRUE, id_column |-> FALSE, rows |-> table.rows \o rows]

----------------------------------------------------------------------------
(* check_date's comparison *)

PyStr(d) == [type |-> "str", v |-> d]
PyDate(d) == [type |-> "date", v |-> d]

\* Timestamp.strftime("%Y-%m-%d")
strftime(d) == PyStr(d)

\* Python's ==: a str never equals a datetime.date
PyEq(a, b) == a.type = b.type /\ a.v = b.v

\* read_csv(usecols=[0], skiprows=1, nrows=1): skiprows drops the header line, the
\* first data row becomes the header and the row read is the second data row
start_date(file) == file.rows[2].day

----------------------------------------------------------------------------
(* The store *)

\* get_data_from_db under st.cache_data: a hit returns the memoized dataframe, a
\* miss runs SELECT * FROM weekly_<location> and memoizes what it returns
get_data_from_db(loc, date) ==
    IF db_cache[<<loc, date>>].hit
    THEN [kind |-> "df", rows |-> db_cache[<<loc, date>>].v, cache |-> db_cache]
    ELSE IF db[loc].exists
         THEN [kind |-> "df", rows |-> db[loc].rows,
               cache |-> [db_cache EXCEPT ![<<loc, date>>] = Hit(db[loc].rows)]]
         ELSE [kind |-> "raised", rows |-> <<>>, cache |-> db_cache]

\* A store an earlier run of the program left behind for one location
StoredRows(d) ==
    process_df(DataFrame([h \in Hours |->
        [day |-> d, hour |-> h, weather_code |-> 0]])).rows

----------------------------------------------------------------------------
(* The application *)

AppVars == <<today, db, csv, api_cache, db_cache, api_calls, current_location,
             todays_date, current_df, pc, caller, location, data, entry, error,
             buttons, shown, trigger>>

IdleFetch == NewRequest([i \in 1..ScriptLen |-> Reply(200)])

AppInit ==
    /\ today = 1
    /\ \E pre \in SUBSET Locations :
          /\ db = [l \in Locations |->
                     IF l \in pre THEN to_sql(Table(<<>>), StoredRows(1)) ELSE NoTable]
          /\ csv = [l \in Locations |->
                     IF l \in pre THEN File(StoredRows(1)) ELSE NoFile]
    /\ api_cache = [u \in Urls |-> Miss]
    /\ db_cache = [k \in Locations \X Dates |-> Miss]
    /\ api_calls = [k \in Urls \X Dates |-> 0]
    /\ current_location = [s \in Sessions |-> Unset]
    /\ todays_date = [s \in Sessions |-> Unset]
    /\ current_df = [s \in Sessions |-> Unset]
    /\ pc = [s \in Sessions |-> "idle"]
    /\ caller = [s \in Sessions |-> "none"]
    /\ location = [s \in Sessions |-> "london"]
    /\ data = [s \in Sessions |-> None]
    /\ entry = [s \in Sessions |-> [db |-> NoTable, csv |-> NoFile]]
    /\ error = [s \in Sessions |-> "none"]
    /\ buttons = [s \in Sessions |-> FALSE]
    /\ shown = [s \in Sessions |-> Unset]
    /\ trigger = [s \in Sessions |-> "run"]

Init == AppInit /\ fetch = IdleFetch

\* datetime.date.today() moves on
Tick ==
    /\ today < MaxDate
    /\ today' = today + 1
    /\ UNCHANGED <<db, csv, api_cache, db_cache, api_calls, current_location,
                   todays_date, current_df, pc, caller, location, data, entry,
                   error, buttons, shown, trigger, fetch>>

\* An uncaught exception ends the script run
Raise(s, exc) ==
    /\ pc' = [pc EXCEPT ![s] = "idle"]
    /\ error' = [error EXCEPT ![s] = exc]
    /\ data' = [data EXCEPT ![s] = None]

\* Entering update_session(loc)
Call(s, loc, from) ==
    /\ pc' = [pc EXCEPT ![s] = "us_fetch"]
    /\ caller' = [caller EXCEPT ![s] = from]
    /\ location' = [location EXCEPT ![s] = loc]
    /\ entry' = [entry EXCEPT ![s] = [db |-> db[loc], csv |-> csv[loc]]]

\* The browser opens the page anew: a fresh st.session_state, the caches stay
NewSession(s) ==
    /\ pc[s] = "idle"
    /\ todays_date[s].set
    /\ current_location' = [current_location EXCEPT ![s] = Unset]
    /\ todays_date' = [todays_date EXCEPT ![s] = Unset]
    /\ current_df' = [current_df EXCEPT ![s] = Unset]
    /\ error' = [error EXCEPT ![s] = "none"]
    /\ buttons' = [buttons EXCEPT ![s] = FALSE]
    /\ shown' = [shown EXCEPT ![s] = Unset]
    /\ UNCHANGED <<today, db, csv, api_cache, db_cache, api_calls, pc, caller,
                   location, data, entry, trigger, fetch>>

\* Streamlit starts a script run
RunScript(s) ==
    /\ pc[s] = "idle"
    /\ pc' = [pc EXCEPT ![s] = "setup"]
    /\ trigger' = [trigger EXCEPT ![s] = "run"]
    /\ error' = [error EXCEPT ![s] = "none"]
    /\ buttons' = [buttons EXCEPT ![s] = FALSE]
    /\ UNCHANGED <<today, db, csv, api_cache, db_cache, api_calls, current_location,
                   todays_date, current_df, caller, location, data, entry, shown,
                   fetch>>

\* A sidebar button: on_click=update_session, args=(loc,) runs before the script
ClickLocation(s, loc) ==
    /\ pc[s] = "idle"
    /\ buttons[s]
    /\ Call(s, loc, "on_click")
    /\ trigger' = [trigger EXCEPT ![s] = "click"]
    /\ error' = [error EXCEPT ![s] = "none"]
    /\ buttons' = [buttons EXCEPT ![s] = FALSE]
    /\ UNCHANGED <<today, db, csv, api_cache, db_cache, api_calls, current_location,
                   todays_date, current_df, data, shown, fetch>>

setup(s) ==
    /\ pc[s] = "setup"
    /\ LET loc == IF current_location[s].set THEN current_location[s] ELSE Val("london")
           date == IF todays_date[s].set THEN todays_date[s] ELSE Val(today)
           read == get_data_from_db("london", date.v)
       IN  /\ current_location' = [current_location EXCEPT ![s] = loc]
           /\ todays_date' = [todays_date EXCEPT ![s] = date]
           /\ IF current_df[s].set
              THEN /\ pc' = [pc EXCEPT ![s] = "main"]
                   /\ UNCHANGED <<current_df, db_cache, error, data>>
              ELSE IF read.kind = "raised"
                   THEN /\ Raise(s, "DatabaseError")
                        /\ UNCHANGED <<current_df, db_cache>>
                   ELSE /\ current_df' = [current_df EXCEPT ![s] = Val(read.rows)]
                        /\ db_cache' = read.cache
                        /\ pc' = [pc EXCEPT ![s] = "main"]
                        /\ UNCHANGED <<error, data>>
    /\ UNCHANGED <<today, db, csv, api_cache, api_calls, caller, location, entry,
                   buttons, shown, trigger, fetch>>

\* __main__: update_session(st.session_state.current_location)
main(s) ==
    /\ pc[s] = "main"
    /\ Call(s, current_location[s].v, "main")
    /\ UNCHANGED <<today, db, csv, api_cache, db_cache, api_calls, current_location,
                   todays_date, current_df, data, error, buttons, shown,
                   trigger, fetch>>

\* What the weather API may do during one run of the application: the same reply
\* to every attempt, or one 503 before a 200
AppScripts ==
    {[i \in 1..ScriptLen |-> r] : r \in Replies}
        \cup {[i \in 1..ScriptLen |-> IF i = 1 THEN Reply(503) ELSE Reply(200)]}

\* update_session, lines 198-201: the memoized get_data_from_api(url)
us_fetch(s) ==
    /\ pc[s] = "us_fetch"
    /\ current_location' = [current_location EXCEPT ![s] = Val(location[s])]
    /\ LET url == UrlOf(location[s])
       IN  IF api_cache[url].hit
           THEN /\ data' = [data EXCEPT ![s] = api_cache[url].v]
                /\ UNCHANGED <<api_cache, api_calls>>
           ELSE \E script \in AppScripts, body \in Payloads(today) \cup {Garbage} :
                  LET values == get_data_from_api(request(NewRequest(script)), body).value
                  IN  /\ data' = [data EXCEPT ![s] = values]
                      /\ api_cache' = [api_cache EXCEPT ![url] = Hit(values)]
                      /\ api_calls' = [api_calls EXCEPT
                             ![<<url, todays_date[s].v>>] = @ + 1]
    /\ pc' = [pc EXCEPT ![s] = "us_process"]
    /\ UNCHANGED <<today, db, csv, db_cache, todays_date, current_df, caller,
                   location, entry, error, buttons, shown, trigger, fetch>>

\* update_session, lines 202-206: response_to_pandas, process_df, to_csv
us_process(s) ==
    /\ pc[s] = "us_process"
    /\ LET df == response_to_pandas(data[s])
           processed_df == IF df.kind = "raised" THEN df ELSE process_df(df)
       IN  IF processed_df.kind = "raised"
           THEN /\ Raise(s, processed_df.exc)
                /\ UNCHANGED csv
           ELSE /\ csv' = [csv EXCEPT ![location[s]] = File(processed_df.rows)]
                /\ pc' = [pc EXCEPT ![s] = "db_drop"]
                /\ data' = [data EXCEPT ![s] = None]
                /\ UNCHANGED error
    /\ UNCHANGED <<today, db, api_cache, db_cache, api_calls, current_location,
                   todays_date, current_df, caller, location, entry, buttons,
                   shown, trigger, fetch>>

\* csv_to_db: DROP TABLE IF EXISTS, committed as it executes
db_drop(s) ==
    /\ pc[s] = "db_drop"
    /\ db' = [db EXCEPT ![location[s]] = NoTable]
    /\ pc' = [pc EXCEPT ![s] = "db_create"]
    /\ UNCHANGED <<today, csv, api_cache, db_cache, api_calls, current_location,
                   todays_date, current_df, caller, location, data, entry, error,
                   buttons, shown, trigger, fetch>>

\* csv_to_db: CREATE TABLE IF NOT EXISTS, committed as it executes
db_create(s) ==
    /\ pc[s] = "db_create"
    /\ db' = [db EXCEPT ![location[s]] = IF @.exists THEN @ ELSE Table(<<>>)]
    /\ pc' = [pc EXCEPT ![s] = "db_insert"]
    /\ UNCHANGED <<today, csv, api_cache, db_cache, api_calls, current_location,
                   todays_date, current_df, caller, location, data, entry, error,
                   buttons, shown, trigger, fetch>>

\* csv_to_db: pd.read_csv, then to_sql in one transaction; either may fail
db_insert(s) ==
    /\ pc[s] = "db_insert"
    /\ \E fault \in {"none", "read_csv", "to_sql"} :
          IF fault = "read_csv" \/ ~csv[location[s]].exists
          THEN /\ Raise(s, "FileNotFoundError")
               /\ UNCHANGED db
          ELSE IF fault = "to_sql"
               THEN /\ Raise(s, "OperationalError")
                    /\ UNCHANGED db
               ELSE /\ db' = [db EXCEPT ![location[s]] =
                                to_sql(@, csv[location[s]].rows)]
                    /\ pc' = [pc EXCEPT ![s] = "us_read"]
                    /\ UNCHANGED <<error, data>>
    /\ UNCHANGED <<today, csv, api_cache, db_cache, api_calls, current_location,
                   todays_date, current_df, caller, location, entry, buttons,
                   shown, trigger, fetch>>

\* update_session, lines 208-210, and the return to the caller
us_read(s) ==
    /\ pc[s] = "us_read"
    /\ LET read == get_data_from_db(location[s], todays_date[s].v)
       IN  IF read.kind = "raised"
           THEN /\ Raise(s, "DatabaseError")
                /\ UNCHANGED <<current_df, db_cache>>
           ELSE /\ current_df' = [current_df EXCEPT ![s] = Val(read.rows)]
                /\ db_cache' = read.cache
                /\ pc' = [pc EXCEPT ![s] =
                       IF caller[s] = "main" THEN "check_date"
                       ELSE IF caller[s] = "check_date" THEN "display_it"
                       ELSE "setup"]
                /\ UNCHANGED <<error, data>>
    /\ UNCHANGED <<today, db, csv, api_cache, api_calls, current_location,
                   todays_date, caller, location, entry, buttons, shown,
                   trigger, fetch>>

check_date(s) ==
    /\ pc[s] = "check_date"
    /\ LET file == csv[current_location[s].v]
       IN  IF ~file.exists
           THEN /\ Raise(s, "FileNotFoundError")
                /\ UNCHANGED <<caller, location, entry>>
           ELSE IF Len(file.rows) < 2
           THEN /\ Raise(s, "IndexError")
                /\ UNCHANGED <<caller, location, entry>>
           ELSE IF ~PyEq(strftime(start_date(file)), PyDate(todays_date[s].v))
           THEN /\ Call(s, current_location[s].v, "check_date")
                /\ UNCHANGED <<error, data>>
           ELSE /\ pc' = [pc EXCEPT ![s] = "display_it"]
                /\ UNCHANGED <<caller, location, entry, error, data>>
    /\ UNCHANGED <<today, db, csv, api_cache, db_cache, api_calls, current_location,
                   todays_date, current_df, buttons, shown, trigger, fetch>>

\* display_it: the sidebar buttons, then one tab per date of the memoized read
display_it(s) ==
    /\ pc[s] = "display_it"
    /\ buttons' = [buttons EXCEPT ![s] = TRUE]
    /\ LET read == get_data_from_db(current_location[s].v, todays_date[s].v)
       IN  IF read.kind = "raised"
           THEN /\ Raise(s, "DatabaseError")
                /\ UNCHANGED <<shown, db_cache>>
           ELSE /\ db_cache' = read.cache
                /\ shown' = [shown EXCEPT ![s] = Val(read.rows)]
                /\ IF read.rows = <<>>
                   THEN Raise(s, "StreamlitAPIException")
                   ELSE /\ pc' = [pc EXCEPT ![s] = "idle"]
                        /\ UNCHANGED <<error, data>>
    /\ UNCHANGED <<today, db, csv, api_cache, api_calls, current_location,
                   todays_date, current_df, caller, location, entry,
                   trigger, fetch>>

\* The steps of a script run
Script(s) ==
    \/ RunScript(s)
    \/ setup(s)
    \/ main(s)
    \/ us_fetch(s)
    \/ us_process(s)
    \/ db_drop(s)
    \/ db_create(s)
    \/ db_insert(s)
    \/ us_read(s)
    \/ check_date(s)
    \/ display_it(s)

Step(s) ==
    \/ NewSession(s)
    \/ \E loc \in Locations : ClickLocation(s, loc)
    \/ Script(s)

\* One browser session at a time, over the days
Next == Tick \/ Step("s1")

Spec == Init /\ [][Next]_vars

\* Two browser sessions of the same server, their script runs interleaved
\* statement by statement
ConcNext == Tick \/ \E s \in Sessions : Script(s)

\* They start from a store that holds london's table and no other
ConcInit == Init /\ \A l \in Locations : db[l].exists <=> l = "london"

ConcSpec == ConcInit /\ [][ConcNext]_vars

----------------------------------------------------------------------------
(* get_data_from_api alone, attempt by attempt, against every server script *)

FetchInit ==
    /\ AppInit
    /\ \A l \in Locations : ~db[l].exists
    /\ \E script \in Scripts : fetch = NewRequest(script)

\* One attempt of http.request(...)
attempt ==
    /\ fetch.outcome = "pending"
    /\ fetch' = urlopen(fetch)
    /\ UNCHANGED AppVars

\* The request has ended: the branch of lines 69-81 that handles it
returns ==
    /\ fetch.outcome # "pending"
    /\ fetch.message = "none"
    /\ \E body \in Payloads(today) \cup {Garbage} :
          fetch' = [fetch EXCEPT !.message = get_data_from_api(fetch, body).message]
    /\ UNCHANGED AppVars

FetchNext == attempt \/ returns

FetchSpec == FetchInit /\ [][FetchNext]_vars

----------------------------------------------------------------------------
(* C5 *)

Always503 == \A i \in DOMAIN fetch.script : fetch.script[i] = Reply(503)

\* C5 as written: against a server that answers 503 to every request,
\* get_data_from_api makes exactly 5 HTTP attempts in all and then ends in the
\* max-retries-exceeded outcome.
C5_FiveAttempts ==
    Always503 /\ fetch.outcome # "pending" =>
        fetch.outcome = "MaxRetryError" /\ fetch.attempts = 5

\* C5 amended: against a server that answers 503 to every request,
\* get_data_from_api makes exactly RetryTotal + 1 = 6 HTTP attempts in all (the
\* first request and 5 retries), never stopping earlier or going on longer, and
\* then ends in the max-retries-exceeded outcome.
C5_SixAttempts ==
    Always503 =>
        \/ fetch.outcome = "pending" /\ fetch.attempts <= RetryTotal
        \/ /\ fetch.outcome = "MaxRetryError"
           /\ fetch.attempts = RetryTotal + 1
           /\ fetch.message \in {"none", "Max retries exceeded with url"}

C5_Witness ==
    /\ Always503
    /\ fetch.attempts = RetryTotal + 1
    /\ fetch.message = "Max retries exceeded with url"

----------------------------------------------------------------------------
(* Claims about the application *)

InUpdateSession(s) ==
    pc[s] \in {"us_fetch", "us_process", "db_drop", "db_create", "db_insert", "us_read"}

\* The staleness the specification defines: no persisted forecast, or the
\* calendar date of its first row is not the reference date
IsStale(file, date) == ~file.exists \/ file.rows[1].day # date

\* The label the specification configures for codes the table lacks
FallbackLabel == "generic"

\* C1: a read through get_data_from_db made after the most recent successful
\* write returns exactly the rows of the table that write stored: when
\* update_session has returned (to check_date or display_it), the dataframe its
\* own get_data_from_db call put in current_df is the table csv_to_db just wrote.
C1_ReadReturnsLastWrite ==
    \A s \in Sessions :
        pc[s] \in {"check_date", "display_it"} =>
            current_df[s] = Val(db[location[s]].rows)

\* C2: a refresh that fails at any step leaves the persisted data of its
\* location as it was when the refresh started: the table still exists with the
\* same rows, and the CSV export holds its previous rows.
C2_FailedRefreshChangesNothing ==
    \A s \in Sessions :
        /\ pc[s] = "idle"
        /\ error[s] \in {"TypeError", "KeyError", "FileNotFoundError", "OperationalError"}
        => /\ db[location[s]] = entry[s].db
           /\ csv[location[s]] = entry[s].csv

\* C3: when the fetch fails (get_data_from_api returns no payload),
\* update_session returns normally: no script run ends with the exception that
\* reading the missing payload raises.
C3_FetchFailureDoesNotRaise ==
    \A s \in Sessions : error[s] # "TypeError"

\* C4: check_date starts a refresh if and only if the persisted forecast is
\* stale: it calls update_session only when the stored first-row date differs
\* from todays_date (or nothing is stored), and goes on to display_it without a
\* refresh only when the stored forecast is fresh.
C4_RefreshIffStale ==
    \A s \in Sessions :
        /\ (InUpdateSession(s) /\ caller[s] = "check_date")
              => IsStale(entry[s].csv, todays_date[s].v)
        /\ (pc[s] = "display_it" /\ caller[s] # "check_date")
              => ~IsStale(csv[current_location[s].v], todays_date[s].v)

\* C6: process_df never fails on an unknown weather code: for every payload the
\* API delivered it produces a table, and each row whose code the code->label
\* table lacks carries the fallback label.
C6_UnknownCodeGetsFallback ==
    \A s \in Sessions :
        pc[s] = "us_process" /\ data[s].kind = "values" =>
            LET out == process_df(response_to_pandas(data[s]))
            IN  /\ out.kind = "df"
                /\ Len(out.rows) = Len(data[s].rows)
                /\ \A i \in DOMAIN out.rows :
                      out.rows[i].weather_code \notin DOMAIN weather_codes
                          => out.rows[i].weather = FallbackLabel

\* C8: no read of a location's table happens before a write of it has completed,
\* so the not-found failure of get_data_from_db is unreachable, the first run
\* against an empty store included.
C8_NoReadBeforeFirstWrite ==
    \A s \in Sessions : error[s] # "DatabaseError"

\* C9: in a script run that no location switch started, update_session runs
\* only when the persisted forecast is stale: whenever it is entered from
\* __main__ or check_date in such a run, the stored first-row date differed from
\* the reference date (or nothing was stored) at that moment.
C9_NoRefreshWhenFresh ==
    \A s \in Sessions :
        InUpdateSession(s) /\ trigger[s] = "run" /\ caller[s] \in {"main", "check_date"}
            => IsStale(entry[s].csv, todays_date[s].v)

\* C10: the memoized fetch is keyed by (location, date): under one reference
\* date a location is requested from the API at most once, and a refresh under
\* a reference date not yet requested for that location issues a new request.
C10_FetchKeyedByLocationAndDate ==
    /\ \A k \in DOMAIN api_calls : api_calls[k] <= 1
    /\ \A s \in Sessions :
          pc[s] = "us_process" =>
              api_calls[<<UrlOf(location[s]), todays_date[s].v>>] >= 1

----------------------------------------------------------------------------
(* C7 *)

\* The location and the memo key of the get_data_from_db call session s stands at
ReadLocation(s) == IF pc[s] = "setup" THEN "london"
                   ELSE IF pc[s] = "us_read" THEN location[s]
                   ELSE current_location[s].v
ReadKey(s) ==
    <<ReadLocation(s), IF todays_date[s].set THEN todays_date[s].v ELSE today>>

\* Session s takes the step that runs the SELECT of get_data_from_db
Queries(s) ==
    /\ pc[s] \in {"setup", "us_read", "display_it"}
    /\ pc[s] = "setup" => ~current_df[s].set
    /\ ~db_cache[ReadKey(s)].hit
    /\ pc'[s] # pc[s]

\* Session t is inside csv_to_db for loc, past DROP TABLE and before the insert
\* has committed, replacing a complete table
Writing(t, loc) ==
    /\ pc[t] \in {"db_create", "db_insert"}
    /\ location[t] = loc
    /\ Len(entry[t].db.rows) = HoursPerPayload

\* C7: a reader running concurrently with a write of the same location never
\* observes a partially written table: a SELECT that runs while another session
\* is inside csv_to_db returns a complete table, not a missing table, an empty
\* one or part of the new rows.
C7_ReaderSeesCompleteTable ==
    [][\A s \in Sessions : \A t \in Sessions \ {s} :
          Queries(s) /\ Writing(t, ReadLocation(s)) =>
              /\ db_cache'[ReadKey(s)].hit
              /\ Len(db_cache'[ReadKey(s)].v) = HoursPerPayload]_vars

====
